---- MODULE Spec2Model ----
(***************************************************************************)
(* Model of the root-cause dashboard (src/app.py): the CSV loader          *)
(* cargar_datos with its column mapping, defaulting and coercion, the      *)
(* module-level layout that derives the dropdown options, and the Dash     *)
(* callback actualizar_dashboard that filters the dataset and builds the   *)
(* Pareto, category, severity and table outputs.                           *)
(*                                                                         *)
(* Python and pandas values are tagged records (Str, Num, Date, NaN, None) *)
(* so that a cell keeps the type pandas gives it.  Column labels and       *)
(* keywords are plain strings; Chars gives their characters so that        *)
(* lower(), strip() and the substring test `in` are computed.              *)
(*                                                                         *)
(* Scope of the input tables: the labels of a table are pairwise distinct, *)
(* also after the renaming of cargar_datos (pandas keeps duplicate labels, *)
(* and selecting such a label yields a frame, not a column).               *)
(***************************************************************************)
EXTENDS Integers, Sequences, FiniteSets, TLC

VARIABLES
    file,               \* causas_raiz.csv as the parsers see it
    pc,                 \* "inicio" | "cargado" | "sirviendo" | "caido"
    df,                 \* the module-level DataFrame (app.py line 120)
    columnas_mapeadas,  \* the mapping built by cargar_datos (line 33)
    via,                \* the return statement cargar_datos took
    opciones,           \* options of the two dropdowns (lines 142, 152)
    equipo,             \* value of dropdown filtro-equipo
    categoria,          \* value of dropdown filtro-categoria
    pendientes,         \* callback requests sent and not yet handled
    salida,             \* what the last handled callback returned
    atendida,           \* the request the last handled callback received
    primera,            \* the first request handled, what it returned, and
                        \* whether it was handled again (veces = 2)
    orden_empates       \* how this build's default sort orders equal keys

vars == <<file, pc, df, columnas_mapeadas, via, opciones, equipo, categoria,
          pendientes, salida, atendida, primera, orden_empates>>

\* ------------------------------------------------------------ bounds
\* Rows of a table of the data family.
MaxRows == 2
\* Callback requests in flight.
MaxPending == 2
\* Widest table of the family whose labels match no keyword.
MaxWidth == 7
\* Widest table of the family whose labels are drawn from HeaderPool.
MaxMapCols == 2

\* ------------------------------------------------------------ values
Str(x) == [t |-> "str", s |-> x, n |-> 0]
Num(k) == [t |-> "num", s |-> "", n |-> k]
\* A Timestamp, as days since 2024-01-01.
Date(d) == [t |-> "date", s |-> "", n |-> d]
NaN == [t |-> "nan", s |-> "", n |-> 0]
None == [t |-> "none", s |-> "", n |-> 0]

isna(v) == v.t = "nan"

\* Python truth value of a callback argument (`if equipo_seleccionado:`).
Truthy(v) ==
    CASE v.t = "none" -> FALSE
      [] v.t = "str" -> v.s # ""
      [] v.t = "num" -> v.n # 0
      [] OTHER -> TRUE

\* The characters of the labels and keywords the model uses.
Chars(s) ==
    CASE
       s = "Fecha" -> <<"F", "e", "c", "h", "a">>
    [] s = "Equipo" -> <<"E", "q", "u", "i", "p", "o">>
    [] s = "Categoria" -> <<"C", "a", "t", "e", "g", "o", "r", "i", "a">>
    [] s = "Causa" -> <<"C", "a", "u", "s", "a">>
    [] s = "Frecuencia" -> <<"F", "r", "e", "c", "u", "e", "n", "c", "i", "a">>
    [] s = "Falla" -> <<"F", "a", "l", "l", "a">>
    [] s = "Severidad" -> <<"S", "e", "v", "e", "r", "i", "d", "a", "d">>
    [] s = "Machine_ID" -> <<"M", "a", "c", "h", "i", "n", "e", "_", "I", "D">>
    [] s = "Tipo de Causa" -> <<"T", "i", "p", "o", " ", "d", "e", " ", "C", "a", "u", "s", "a">>
    [] s = " CAUSA raiz " -> <<" ", "C", "A", "U", "S", "A", " ", "r", "a", "i", "z", " ">>
    [] s = "Root Cause" -> <<"R", "o", "o", "t", " ", "C", "a", "u", "s", "e">>
    [] s = "Cantidad" -> <<"C", "a", "n", "t", "i", "d", "a", "d">>
    [] s = "Event Time" -> <<"E", "v", "e", "n", "t", " ", "T", "i", "m", "e">>
    [] s = "Notas" -> <<"N", "o", "t", "a", "s">>
    [] s = "X1" -> <<"X", "1">>
    [] s = "X2" -> <<"X", "2">>
    [] s = "X3" -> <<"X", "3">>
    [] s = "X4" -> <<"X", "4">>
    [] s = "X5" -> <<"X", "5">>
    [] s = "X6" -> <<"X", "6">>
    [] s = "X7" -> <<"X", "7">>
    [] s = "X8" -> <<"X", "8">>
    [] s = "X9" -> <<"X", "9">>
    [] s = "fecha" -> <<"f", "e", "c", "h", "a">>
    [] s = "date" -> <<"d", "a", "t", "e">>
    [] s = "time" -> <<"t", "i", "m", "e">>
    [] s = "equipo" -> <<"e", "q", "u", "i", "p", "o">>
    [] s = "equipment" -> <<"e", "q", "u", "i", "p", "m", "e", "n", "t">>
    [] s = "machine" -> <<"m", "a", "c", "h", "i", "n", "e">>
    [] s = "maquina" -> <<"m", "a", "q", "u", "i", "n", "a">>
    [] s = "categoria" -> <<"c", "a", "t", "e", "g", "o", "r", "i", "a">>
    [] s = "category" -> <<"c", "a", "t", "e", "g", "o", "r", "y">>
    [] s = "tipo" -> <<"t", "i", "p", "o">>
    [] s = "type" -> <<"t", "y", "p", "e">>
    [] s = "class" -> <<"c", "l", "a", "s", "s">>
    [] s = "causa" -> <<"c", "a", "u", "s", "a">>
    [] s = "cause" -> <<"c", "a", "u", "s", "e">>
    [] s = "reason" -> <<"r", "e", "a", "s", "o", "n">>
    [] s = "razon" -> <<"r", "a", "z", "o", "n">>
    [] s = "frecuencia" -> <<"f", "r", "e", "c", "u", "e", "n", "c", "i", "a">>
    [] s = "frequency" -> <<"f", "r", "e", "q", "u", "e", "n", "c", "y">>
    [] s = "count" -> <<"c", "o", "u", "n", "t">>
    [] s = "cantidad" -> <<"c", "a", "n", "t", "i", "d", "a", "d">>
    [] s = "falla" -> <<"f", "a", "l", "l", "a">>
    [] s = "failure" -> <<"f", "a", "i", "l", "u", "r", "e">>
    [] s = "error" -> <<"e", "r", "r", "o", "r">>
    [] s = "problema" -> <<"p", "r", "o", "b", "l", "e", "m", "a">>
    [] s = "issue" -> <<"i", "s", "s", "u", "e">>

UpperToLower ==
    [A |-> "a", C |-> "c", D |-> "d", E |-> "e", F |-> "f", I |-> "i",
     M |-> "m", N |-> "n", R |-> "r", S |-> "s", T |-> "t", U |-> "u",
     X |-> "x"]

\* str.lower()
lower(cs) ==
    [i \in 1..Len(cs) |->
        IF cs[i] \in DOMAIN UpperToLower THEN UpperToLower[cs[i]] ELSE cs[i]]

RECURSIVE lstrip(_)
lstrip(cs) == IF cs # <<>> /\ Head(cs) = " " THEN lstrip(Tail(cs)) ELSE cs

RECURSIVE rstrip(_)
rstrip(cs) ==
    IF cs # <<>> /\ cs[Len(cs)] = " "
    THEN rstrip(SubSeq(cs, 1, Len(cs) - 1))
    ELSE cs

\* str.strip()
strip(cs) == rstrip(lstrip(cs))

\* Python's `palabra in col_lower` on strings.
Contains(cs, palabra) ==
    \E i \in 1..(Len(cs) - Len(palabra) + 1) :
        SubSeq(cs, i, i + Len(palabra) - 1) = palabra

\* any(palabra in col_lower for palabra in palabras)
AnyIn(col_lower, palabras) ==
    \E k \in 1..Len(palabras) : Contains(col_lower, Chars(palabras[k]))

\* ------------------------------------------------------------ frames
\* lista[:n]
Prefijo(s, n) == SubSeq(s, 1, IF n < Len(s) THEN n ELSE Len(s))

\* A DataFrame: its column labels and its rows, a cell per label.
Frame(cols, filas) == [columns |-> cols, rows |-> filas]

\* `col in df.columns`
HasCol(d, col) == \E j \in 1..Len(d.columns) : d.columns[j] = col

\* Position of the column df[col].
ColIdx(d, col) == CHOOSE j \in 1..Len(d.columns) : d.columns[j] = col

Cell(d, fila, col) == fila[ColIdx(d, col)]

\* df[col] = valores: replaces the column, or appends it when new.
SetCol(d, col, valores) ==
    IF HasCol(d, col)
    THEN Frame(d.columns,
               [i \in 1..Len(d.rows) |->
                   [d.rows[i] EXCEPT ![ColIdx(d, col)] = valores[i]]])
    ELSE Frame(Append(d.columns, col),
               [i \in 1..Len(d.rows) |-> Append(d.rows[i], valores[i])])

\* ------------------------------------------------------------ parsing
\* int() on the texts of the model's cells.
NumTexto ==
    ("0" :> 0) @@ ("1" :> 1) @@ ("2" :> 2) @@ ("3" :> 3) @@ ("4" :> 4)
    @@ ("-1" :> 0 - 1)

\* The date texts of the model's cells, as days since 2024-01-01.
FechaTexto == ("2024-01-01" :> 0) @@ ("2024-01-02" :> 1) @@ ("2024-01-03" :> 2)

\* read_csv infers the type of a column: numeric when every cell is a
\* number or empty, text otherwise; an empty cell is NaN.
ColumnaNumerica(filas, j) ==
    \A i \in 1..Len(filas) : filas[i][j] \in (DOMAIN NumTexto) \cup {""}

LeerCelda(filas, i, j) ==
    IF filas[i][j] = "" THEN NaN
    ELSE IF ColumnaNumerica(filas, j) THEN Num(NumTexto[filas[i][j]])
    ELSE Str(filas[i][j])

\* pd.read_csv("causas_raiz.csv"), then the tolerant read_csv of the except
\* branch.  A missing file fails both with FileNotFoundError; a file with no
\* columns, or one neither parser reads, fails both with another exception;
\* "malformado" fails the first and the second skips the bad lines.
read_csv(f) ==
    IF f.estado = "ausente" THEN [exc |-> "FileNotFoundError"]
    ELSE IF f.estado = "ilegible" \/ Len(f.cols) = 0 THEN [exc |-> "Exception"]
    ELSE [exc |-> "",
          df |-> Frame(f.cols,
                       [i \in 1..Len(f.filas) |->
                           [j \in 1..Len(f.cols) |-> LeerCelda(f.filas, i, j)]])]

\* ------------------------------------------------------------ mapping
columnas_necesarias ==
    <<"Fecha", "Equipo", "Categoria", "Causa", "Frecuencia", "Falla">>

\* The keyword lists of the elif chain of the mapping loop, in its order
\* (lines 41, 45, 49, 53, 57, 61).
Palabras ==
    << <<"fecha", "date", "time">>,
       <<"equipo", "equipment", "machine", "maquina">>,
       <<"categoria", "category", "tipo", "type", "class">>,
       <<"causa", "cause", "reason", "razon">>,
       <<"frecuencia", "frequency", "count", "cantidad">>,
       <<"falla", "failure", "error", "problema", "issue">> >>

\* col.lower().strip()
col_lower(col) == strip(lower(Chars(col)))

\* The branches of the chain whose test holds for a label.
Ramas(col) == {k \in 1..Len(Palabras) : AnyIn(col_lower(col), Palabras[k])}

\* The if/elif chain: the first branch whose test holds assigns the label to
\* its field; "" when none holds.
CampoDe(col) ==
    LET ramas == Ramas(col) IN
    IF ramas = {} THEN ""
    ELSE columnas_necesarias[CHOOSE k \in ramas : \A j \in ramas : k <= j]

\* A mapping step that keeps the column a field already has.
AsignarPrimero(m, campo, col) == m @@ (campo :> col)

\* columnas_mapeadas[campo] = col
Asignar(m, campo, col) == (campo :> col) @@ m

RECURSIVE MapearDesde(_, _, _)
MapearDesde(cols, i, m) ==
    IF i > Len(cols) THEN m
    ELSE LET campo == CampoDe(cols[i]) IN
         MapearDesde(cols, i + 1,
                     IF campo = "" THEN m ELSE Asignar(m, campo, cols[i]))

\* The loop `for col in columnas_disponibles` from an empty dict.
MapearColumnas(cols) == MapearDesde(cols, 1, [k \in {} |-> ""])

\* df.rename(columns={v: k for k, v in columnas_mapeadas.items()})
Renombrar(d, m) ==
    Frame([j \in 1..Len(d.columns) |->
              IF \E k \in DOMAIN m : m[k] = d.columns[j]
              THEN CHOOSE k \in DOMAIN m : m[k] = d.columns[j]
              ELSE d.columns[j]],
          d.rows)

\* The else branch: df_renamed.columns = nuevos_nombres[:len(df.columns)]
\* under `if len(df.columns) >= 6`.  Assigning 6 labels to a frame of another
\* width raises ValueError (length mismatch).
Posicional(d) ==
    IF Len(d.columns) >= 6
    THEN IF Len(Prefijo(columnas_necesarias, Len(d.columns))) = Len(d.columns)
         THEN [exc |-> "", df |-> Frame(columnas_necesarias, d.rows)]
         ELSE [exc |-> "Exception"]
    ELSE [exc |-> "", df |-> d]

\* f"Valor_{col}"
ValorDe(col) ==
    CASE col = "Equipo" -> "Valor_Equipo"
      [] col = "Categoria" -> "Valor_Categoria"
      [] col = "Causa" -> "Valor_Causa"
      [] col = "Falla" -> "Valor_Falla"

\* pd.date_range("2024-01-01", periods=n)
date_range(n) == [i \in 1..n |-> Date(i - 1)]

\* The value a missing column is created with.
PorDefecto(d, col) ==
    IF col = "Fecha" THEN date_range(Len(d.rows))
    ELSE IF col = "Frecuencia" THEN [i \in 1..Len(d.rows) |-> Num(1)]
    ELSE [i \in 1..Len(d.rows) |-> Str(ValorDe(col))]

RECURSIVE CrearFaltantes(_, _)
CrearFaltantes(d, k) ==
    IF k > Len(columnas_necesarias) THEN d
    ELSE CrearFaltantes(
             IF HasCol(d, columnas_necesarias[k]) THEN d
             ELSE SetCol(d, columnas_necesarias[k],
                         PorDefecto(d, columnas_necesarias[k])),
             k + 1)

\* pd.to_datetime(x, errors='coerce') on one cell: a number is nanoseconds
\* since 1970-01-01, a text is parsed, anything unparsable is NaT.
to_datetime(v) ==
    CASE v.t = "date" -> v
      [] v.t = "num" -> Date(0 - 19723)
      [] v.t = "str" ->
            IF v.s \in DOMAIN FechaTexto THEN Date(FechaTexto[v.s]) ELSE NaN
      [] OTHER -> NaN

\* pd.to_numeric(x, errors='coerce') on one cell.
to_numeric(v) ==
    CASE v.t = "num" -> v
      [] v.t = "str" ->
            IF v.s \in DOMAIN NumTexto THEN Num(NumTexto[v.s]) ELSE NaN
      [] OTHER -> NaN

\* Series.fillna(valor) / DataFrame.fillna(valor) on one cell.
fillna(v, valor) == IF isna(v) THEN valor ELSE v

\* The coercion without its fillna(1).
FrecuenciaSinRelleno(v) == to_numeric(v)

\* pd.to_numeric(df["Frecuencia"], errors='coerce').fillna(1) on one cell.
Frecuencia(v) == fillna(to_numeric(v), Num(1))

\* Lines 88-89: df_renamed["Fecha"] = pd.to_datetime(...)
ConvertirFecha(d) ==
    SetCol(d, "Fecha",
           [i \in 1..Len(d.rows) |-> to_datetime(Cell(d, d.rows[i], "Fecha"))])

\* Lines 92-93: df_renamed["Frecuencia"] = pd.to_numeric(...).fillna(1)
ConvertirFrecuencia(d) ==
    SetCol(d, "Frecuencia",
           [i \in 1..Len(d.rows) |-> Frecuencia(Cell(d, d.rows[i], "Frecuencia"))])

\* A load that skips the null-fill of line 96.
SinRellenar(d) == d

FillAll(d) ==
    Frame(d.columns,
          [i \in 1..Len(d.rows) |->
              [j \in 1..Len(d.columns) |-> fillna(d.rows[i][j], Str("Sin datos"))]])

\* Lines 76-96: defaults, coercion, null-fill.
Procesar(d) ==
    FillAll(ConvertirFrecuencia(ConvertirFecha(CrearFaltantes(d, 1))))

\* ------------------------------------------------------------ example
CausasEjemplo ==
    <<"Desgaste", "Vibración", "Sobrecalentamiento", "Desalineación", "Fatiga">>

\* Frequencies that repeat after five rows.
FrecuenciasCincoCiclo == <<5, 3, 2, 4, 1>>

FrecuenciasEjemplo == <<5, 3, 2, 4, 1, 6, 3, 2, 4, 1>>

FallasEjemplo ==
   <<"Falla crítica 1", "Falla crítica 2", "Falla crítica 3",
     "Falla crítica 4", "Falla crítica 5", "Falla crítica 6",
     "Falla crítica 7", "Falla crítica 8", "Falla crítica 9",
     "Falla crítica 10", "Falla crítica 11", "Falla crítica 12",
     "Falla crítica 13", "Falla crítica 14", "Falla crítica 15",
     "Falla crítica 16", "Falla crítica 17", "Falla crítica 18",
     "Falla crítica 19", "Falla crítica 20", "Falla crítica 21",
     "Falla crítica 22", "Falla crítica 23", "Falla crítica 24",
     "Falla crítica 25", "Falla crítica 26", "Falla crítica 27",
     "Falla crítica 28", "Falla crítica 29", "Falla crítica 30">>

\* list * k, at position i
Ciclo(lista, i) == lista[((i - 1) % Len(lista)) + 1]

\* [a] * 10 + [b] * 10 + [c] * 10, at position i
Bloque(a, b, c, i) == IF i <= 10 THEN a ELSE IF i <= 20 THEN b ELSE c

crear_datos_ejemplo ==
    Frame(columnas_necesarias,
          [i \in 1..30 |->
              <<Date(i - 1),
                Str(Bloque("Bomba Principal", "Compresor A", "Motor B", i)),
                Str(Bloque("Causa Física", "Causa Técnica", "Causa Operativa", i)),
                Str(Ciclo(CausasEjemplo, i)),
                Num(Ciclo(FrecuenciasEjemplo, i)),
                Str(FallasEjemplo[i])>>])

\* ------------------------------------------------------------ loader
\* cargar_datos: the frame it returns, the mapping it built and the return
\* statement it left by ("procesado", or the except clause taken).
cargar_datos(f) ==
    LET leido == read_csv(f)
        m == MapearColumnas(leido.df.columns)
        renombrado == IF DOMAIN m # {}
                      THEN [exc |-> "", df |-> Renombrar(leido.df, m)]
                      ELSE Posicional(leido.df)
    IN  IF leido.exc # ""
        THEN [df |-> crear_datos_ejemplo, mapeo |-> [k \in {} |-> ""],
              via |-> leido.exc]
        ELSE IF renombrado.exc # ""
        THEN [df |-> crear_datos_ejemplo, mapeo |-> m, via |-> renombrado.exc]
        ELSE [df |-> Procesar(renombrado.df), mapeo |-> m, via |-> "procesado"]

\* ------------------------------------------------------------ ordering
\* The texts of the model in Python's string order (code points).
OrdenTexto ==
   <<"-1", "0", "1", "2",
     "2024-01-01", "2024-01-02", "2024-01-03", "3",
     "4", "Alta", "Baja", "Bomba",
     "Bomba Principal", "Causa Física", "Causa Operativa", "Causa Técnica",
     "Compresor A", "Desalineación", "Desgaste", "Falla A",
     "Falla B", "Falla D", "Falla E", "Falla P1",
     "Falla P2", "Falla crítica 1", "Falla crítica 10", "Falla crítica 11",
     "Falla crítica 12", "Falla crítica 13", "Falla crítica 14", "Falla crítica 15",
     "Falla crítica 16", "Falla crítica 17", "Falla crítica 18", "Falla crítica 19",
     "Falla crítica 2", "Falla crítica 20", "Falla crítica 21", "Falla crítica 22",
     "Falla crítica 23", "Falla crítica 24", "Falla crítica 25", "Falla crítica 26",
     "Falla crítica 27", "Falla crítica 28", "Falla crítica 29", "Falla crítica 3",
     "Falla crítica 30", "Falla crítica 4", "Falla crítica 5", "Falla crítica 6",
     "Falla crítica 7", "Falla crítica 8", "Falla crítica 9", "Fatiga",
     "M-7", "M-9", "Motor B", "Sin datos",
     "Sobrecalentamiento", "Valor_Categoria", "Valor_Causa", "Valor_Equipo",
     "Valor_Falla", "Vibración", "abc", "extra",
     "n1", "no es fecha", "x">>

StrRank(x) == CHOOSE i \in 1..Len(OrdenTexto) : OrdenTexto[i] = x

TypeRank(v) ==
    CASE v.t = "num" -> 1 [] v.t = "str" -> 2 [] v.t = "date" -> 3 [] OTHER -> 4

\* The order groupby gives its keys: numbers before texts, each in its own
\* order.
CellLess(a, b) ==
    IF a.t # b.t THEN TypeRank(a) < TypeRank(b)
    ELSE IF a.t = "str" THEN StrRank(a.s) < StrRank(b.s)
    ELSE a.n < b.n

\* Lexicographic order of key tuples.
RECURSIVE KeyLess(_, _)
KeyLess(a, b) ==
    IF a = <<>> THEN FALSE
    ELSE IF Head(a) # Head(b) THEN CellLess(Head(a), Head(b))
    ELSE KeyLess(Tail(a), Tail(b))

\* The keys of a set in ascending order.
SortKeys(S) ==
    [k \in 1..Cardinality(S) |->
        CHOOSE x \in S : Cardinality({y \in S : KeyLess(y, x)}) = k - 1]

\* Series.unique() as a set.
unique(d, col) == {Cell(d, d.rows[i], col) : i \in 1..Len(d.rows)}

\* sorted(df[col].unique()): Python cannot order a number and a text.
sorted_raises(d, col) == \E a, b \in unique(d, col) : a.t # b.t

sorted_unique(d, col) == SortKeys({<<v>> : v \in unique(d, col)})

\* Lines 161-163: df['Fecha'].min().strftime(...) unless every date is NA.
\* After the null-fill no cell is NA, so only the empty column skips min();
\* min() over Timestamps and the text "Sin datos" raises, and a text has no
\* strftime.
fecha_raises(d) ==
    /\ d.rows # <<>>
    /\ \E i \in 1..Len(d.rows) : Cell(d, d.rows[i], "Fecha").t # "date"

layout_raises(d) ==
    sorted_raises(d, "Equipo") \/ sorted_raises(d, "Categoria") \/ fecha_raises(d)

\* ------------------------------------------------------------ callback
SinDatos == "No hay datos para los filtros seleccionados"

\* A figure: its title and the rows of the frame it was built from.
Fig(titulo, datos) == [title |-> titulo, data |-> datos]

\* Elementwise `==` of a column with the selected value.
Igual(celda, valor) == celda.t = valor.t /\ celda.s = valor.s /\ celda.n = valor.n

\* dff = dff[dff[col] == valor] under `if valor:`
Filtrar(d, col, valor) ==
    IF Truthy(valor)
    THEN Frame(d.columns,
               SelectSeq(d.rows, LAMBDA fila : Igual(Cell(d, fila, col), valor)))
    ELSE d

RECURSIVE SumaDesde(_, _, _, _)
SumaDesde(d, clave, i, acc) ==
    IF i > Len(d.rows) THEN acc
    ELSE SumaDesde(d, clave, i + 1,
                   IF Cell(d, d.rows[i], "Causa") = clave
                   THEN acc + Cell(d, d.rows[i], "Frecuencia").n
                   ELSE acc)

\* The keys groupby keeps: NaN keys are dropped.
Claves(d, cols) ==
    {k \in {[j \in 1..Len(cols) |-> Cell(d, d.rows[i], cols[j])] :
                i \in 1..Len(d.rows)} :
        \A j \in 1..Len(cols) : ~isna(k[j])}

\* A grouping that keeps the causes in the order of their first row
\* (groupby with sort=False).
SumaPorCausaSinOrdenar(d) ==
    LET claves == Claves(d, <<"Causa">>)
        primero(c) == CHOOSE i \in 1..Len(d.rows) :
                         /\ Cell(d, d.rows[i], "Causa") = c[1]
                         /\ \A j \in 1..(i - 1) : Cell(d, d.rows[j], "Causa") # c[1]
    IN  [k \in 1..Cardinality(claves) |->
            LET c == CHOOSE x \in claves :
                        Cardinality({y \in claves : primero(y) < primero(x)}) = k - 1
            IN  [Causa |-> c[1], Frecuencia |-> SumaDesde(d, c[1], 1, 0)]]

\* dff.groupby("Causa")["Frecuencia"].sum().reset_index(): one row per cause,
\* in ascending order of the cause.
SumaPorCausa(d) ==
    LET claves == SortKeys(Claves(d, <<"Causa">>)) IN
    [k \in 1..Len(claves) |->
        [Causa |-> claves[k][1],
         Frecuencia |-> SumaDesde(d, claves[k][1], 1, 0)]]

\* sort_values(by="Frecuencia", ascending=False) with the default kind
\* (quicksort), which pandas documents as not stable: rows with equal
\* Frecuencia keep their order ("estable") or not ("invertido").
Antes(g, i, j, orden) ==
    \/ g[i].Frecuencia > g[j].Frecuencia
    \/ /\ g[i].Frecuencia = g[j].Frecuencia
       /\ IF orden = "estable" THEN i < j ELSE i > j

\* The same sort with ascending=True.
sort_values_ascendente(g, orden) ==
    [k \in 1..Len(g) |->
        g[CHOOSE i \in 1..Len(g) :
              Cardinality({j \in 1..Len(g) : Antes(g, i, j, orden)}) = k - 1]]

sort_values(g, orden) ==
    [k \in 1..Len(g) |->
        g[CHOOSE i \in 1..Len(g) :
              Cardinality({j \in 1..Len(g) : Antes(g, j, i, orden)}) = k - 1]]

Pareto(d, orden) == sort_values(SumaPorCausa(d), orden)

\* dff.groupby("Categoria")["Falla"].count().reset_index(): count() leaves
\* out the rows whose Falla is NaN.
categoria_count(d) ==
    LET claves == SortKeys(Claves(d, <<"Categoria">>)) IN
    [k \in 1..Len(claves) |->
        [Categoria |-> claves[k][1],
         Cantidad |-> Cardinality({i \in 1..Len(d.rows) :
                          /\ Cell(d, d.rows[i], "Categoria") = claves[k][1]
                          /\ ~isna(Cell(d, d.rows[i], "Falla"))})]]

\* dff.groupby(["Categoria", "Severidad"]).size().reset_index(name="Cantidad")
severidad_categoria(d) ==
    LET claves == SortKeys(Claves(d, <<"Categoria", "Severidad">>)) IN
    [k \in 1..Len(claves) |->
        [Categoria |-> claves[k][1],
         Severidad |-> claves[k][2],
         Cantidad |-> Cardinality({i \in 1..Len(d.rows) :
                          /\ Cell(d, d.rows[i], "Categoria") = claves[k][1]
                          /\ Cell(d, d.rows[i], "Severidad") = claves[k][2]})]]

\* A severity branch that never looks for the column.
SeveridadNoDisponible(d) == Fig("Datos de severidad no disponibles", <<>>)

\* The severity branch, lines 253-261.
Severidad(d) ==
    IF HasCol(d, "Severidad")
    THEN Fig("Distribución de Severidad por Categoría", severidad_categoria(d))
    ELSE Fig("Datos de severidad no disponibles", <<>>)

\* dff.to_dict("records"): one dict per row, keyed by the column labels.
to_dict(d) ==
    [i \in 1..Len(d.rows) |->
        [c \in {d.columns[j] : j \in 1..Len(d.columns)} |-> Cell(d, d.rows[i], c)]]

\* The four values actualizar_dashboard returns for the filtered frame dff.
Resultado(dff, orden) ==
    IF dff.rows = <<>>
    THEN [fig_pareto |-> Fig(SinDatos, <<>>),
          fig_torta |-> Fig(SinDatos, <<>>),
          fig_severidad |-> Fig(SinDatos, <<>>),
          tabla |-> <<>>]
    ELSE [fig_pareto |-> Fig("Pareto de Causas", Pareto(dff, orden)),
          fig_torta |-> Fig("Distribución por Categoría", categoria_count(dff)),
          fig_severidad |-> Severidad(dff),
          tabla |-> to_dict(dff)]

actualizar_dashboard(d, equipo_seleccionado, categoria_seleccionada, orden) ==
    Resultado(Filtrar(Filtrar(d, "Equipo", equipo_seleccionado),
                      "Categoria", categoria_seleccionada),
              orden)

\* ------------------------------------------------------------ inputs
\* A file: estado is what the two parsers make of it, cols and filas the
\* header and the well-formed lines, cell texts as written.
Archivo(estado, cols, filas) == [estado |-> estado, cols |-> cols, filas |-> filas]

\* Data family: the labels the loader maps to themselves, with or without a
\* Severidad column, and up to MaxRows of the lines of FilasDatos, in the
\* order listed.
ColsDatos ==
    <<"Fecha", "Equipo", "Categoria", "Causa", "Frecuencia", "Falla", "Severidad">>

FilasDatos ==
    << <<"2024-01-01", "0", "Causa Física", "Vibración", "2", "Falla A", "Alta">>,
       <<"2024-01-02", "1", "Causa Física", "Desgaste", "2", "Falla B", "Baja">>,
       <<"2024-01-01", "Motor B", "Causa Técnica", "Desgaste", "abc", "", "Alta">>,
       <<"2024-01-03", "Motor B", "", "Fatiga", "-1", "Falla D", "">>,
       <<"no es fecha", "1", "Causa Técnica", "Fatiga", "", "Falla E", "Baja">> >>

EnOrden(S) ==
    [i \in 1..Cardinality(S) |->
        CHOOSE x \in S : Cardinality({y \in S : y < x}) = i - 1]

ArchivosDatos ==
    { Archivo("valido", Prefijo(ColsDatos, wS[1]),
              [i \in 1..Cardinality(wS[2]) |->
                  Prefijo(FilasDatos[EnOrden(wS[2])[i]], wS[1])]) :
        wS \in {6, 7} \X {S \in SUBSET (1..Len(FilasDatos)) :
                            Cardinality(S) <= MaxRows} }

\* Mapping family: up to MaxMapCols distinct labels of HeaderPool, two lines.
HeaderPool ==
    {"Machine_ID", "Tipo de Causa", " CAUSA raiz ", "Root Cause", "Cantidad",
     "Event Time", "Notas", "Severidad"}

CeldasDe(h) ==
    CASE h = "Machine_ID" -> <<"M-7", "M-9">>
      [] h = "Tipo de Causa" -> <<"Causa Física", "">>
      [] h = " CAUSA raiz " -> <<"Fatiga", "Desgaste">>
      [] h = "Root Cause" -> <<"Vibración", "Vibración">>
      [] h = "Cantidad" -> <<"4", "x">>
      [] h = "Event Time" -> <<"2024-01-02", "2024-01-03">>
      [] h = "Notas" -> <<"n1", "">>
      [] h = "Severidad" -> <<"Alta", "Baja">>

ArchivosMapeo ==
    UNION { { Archivo("valido", cs,
                      [i \in 1..2 |-> [j \in 1..n |-> CeldasDe(cs[j])[i]]]) :
                cs \in {c \in [1..n -> HeaderPool] :
                           \A a, b \in 1..n : a # b => c[a] # c[b]} } :
            n \in 1..MaxMapCols }

\* Positional family: labels in which no keyword occurs, 0 to MaxWidth
\* columns, two lines.
ColsSinPalabra == <<"X1", "X2", "X3", "X4", "X5", "X6", "X7", "X8", "X9">>

FilasSinPalabra ==
    << <<"2024-01-01", "Bomba", "Causa Física", "Desgaste", "3", "Falla P1",
         "extra", "extra", "extra">>,
       <<"2024-01-02", "Bomba", "Causa Técnica", "Fatiga", "2", "Falla P2",
         "extra", "extra", "extra">> >>

ArchivosPosicional ==
    { Archivo("valido", Prefijo(ColsSinPalabra, n),
              [i \in 1..2 |-> Prefijo(FilasSinPalabra[i], n)]) :
        n \in 0..MaxWidth }

\* No file, a file neither parser reads, and a file only the second parser
\* reads, skipping its bad lines.
ArchivosRotos ==
    { Archivo("ausente", <<>>, <<>>),
      Archivo("ilegible", <<"X1">>, <<>>),
      Archivo("malformado", Prefijo(ColsSinPalabra, 6),
              <<Prefijo(FilasSinPalabra[1], 6)>>) }

Archivos == ArchivosDatos \cup ArchivosMapeo \cup ArchivosPosicional \cup ArchivosRotos

\* ------------------------------------------------------------ machine
SinFigura == Fig("", <<>>)

Peticion(e, c) == [equipo |-> e, categoria |-> c]

Init ==
    /\ file \in Archivos
    /\ orden_empates \in {"estable", "invertido"}
    /\ pc = "inicio"
    /\ df = Frame(<<>>, <<>>)
    /\ columnas_mapeadas = [k \in {} |-> ""]
    /\ via = ""
    /\ opciones = [equipo |-> <<>>, categoria |-> <<>>]
    /\ equipo = None
    /\ categoria = None
    /\ pendientes = <<>>
    /\ salida = [fig_pareto |-> SinFigura, fig_torta |-> SinFigura,
                 fig_severidad |-> SinFigura, tabla |-> <<>>]
    /\ atendida = <<>>
    /\ primera = <<>>

\* Line 120: df = cargar_datos()
Cargar ==
    /\ pc = "inicio"
    /\ pc' = "cargado"
    /\ LET r == cargar_datos(file)
       IN  /\ df' = r.df
           /\ columnas_mapeadas' = r.mapeo
           /\ via' = r.via
    /\ UNCHANGED <<file, opciones, equipo, categoria, pendientes, salida,
                   atendida, primera, orden_empates>>

Opciones(d, col) ==
    [k \in 1..Cardinality(unique(d, col)) |-> sorted_unique(d, col)[k][1]]

\* Lines 134-208: the layout is built from df; an exception here ends the
\* program.  The page is then served: both dropdowns empty, the table filled
\* with every record, and Dash sends the initial callback request.
Layout ==
    /\ pc = "cargado"
    /\ IF layout_raises(df)
       THEN /\ pc' = "caido"
            /\ UNCHANGED <<opciones, salida, pendientes>>
       ELSE /\ pc' = "sirviendo"
            /\ opciones' = [equipo |-> Opciones(df, "Equipo"),
                            categoria |-> Opciones(df, "Categoria")]
            /\ salida' = [salida EXCEPT !.tabla = to_dict(df)]
            /\ pendientes' = <<Peticion(equipo, categoria)>>
    /\ UNCHANGED <<file, df, columnas_mapeadas, via, equipo, categoria,
                   atendida, primera, orden_empates>>

Valores(ops) == {ops[k] : k \in 1..Len(ops)} \cup {None}

\* The user picks or clears the equipment; Dash sends a request carrying
\* both dropdown values.
SeleccionarEquipo(v) ==
    /\ pc = "sirviendo"
    /\ Len(pendientes) < MaxPending
    /\ v # equipo
    /\ equipo' = v
    /\ pendientes' = Append(pendientes, Peticion(v, categoria))
    /\ UNCHANGED <<file, pc, df, columnas_mapeadas, via, opciones, categoria,
                   salida, atendida, primera, orden_empates>>

SeleccionarCategoria(v) ==
    /\ pc = "sirviendo"
    /\ Len(pendientes) < MaxPending
    /\ v # categoria
    /\ categoria' = v
    /\ pendientes' = Append(pendientes, Peticion(equipo, v))
    /\ UNCHANGED <<file, pc, df, columnas_mapeadas, via, opciones, equipo,
                   salida, atendida, primera, orden_empates>>

\* A response that leaves the table component as it was.
ResponderSinTabla(actual, res) == [res EXCEPT !.tabla = actual.tabla]

\* What one run of the callback writes: the four outputs of its return
\* statement, together.
Responder(actual, res) == res

\* Lines 211-263: the server runs actualizar_dashboard on the oldest request
\* and its four return values replace the four outputs.
Callback ==
    /\ pc = "sirviendo"
    /\ pendientes # <<>>
    /\ LET r == Head(pendientes)
           res == actualizar_dashboard(df, r.equipo, r.categoria, orden_empates)
       IN  /\ salida' = Responder(salida, res)
           /\ atendida' = <<r>>
           /\ primera' = IF primera = <<>>
                         THEN <<[peticion |-> r, salida |-> res, veces |-> 1]>>
                         ELSE IF primera[1].peticion = r /\ primera[1].veces < 2
                         THEN <<[primera[1] EXCEPT !.veces = 2]>>
                         ELSE primera
    /\ pendientes' = Tail(pendientes)
    /\ UNCHANGED <<file, pc, df, columnas_mapeadas, via, opciones, equipo,
                   categoria, orden_empates>>

Next ==
    \/ Cargar
    \/ Layout
    \/ \E v \in Valores(opciones.equipo) : SeleccionarEquipo(v)
    \/ \E v \in Valores(opciones.categoria) : SeleccionarCategoria(v)
    \/ Callback

Spec == Init /\ [][Next]_vars

\* ------------------------------------------------------------ claims
\* The request a handled callback received, and what the claims call the
\* filtered records: the table it returned.
Pedida == atendida[1]

\* The records of df a filter state selects, as the specification states it:
\* a dropdown with no selection (None) does not constrain.
Coinciden(e, c) ==
    SelectSeq(to_dict(df),
              LAMBDA r : /\ (e = None \/ r["Equipo"] = e)
                         /\ (c = None \/ r["Categoria"] = c))

\* C1: the table a handled callback returns is exactly the records of df
\* that match the selected equipment and category (an unset dropdown matches
\* every record), in the order of df, each with the fields and values of its
\* original.
C1_FilteredRecordsExact ==
    atendida # <<>> => salida.tabla = Coinciden(Pedida.equipo, Pedida.categoria)

Marcador == Fig("Datos de severidad no disponibles", <<>>)

RECURSIVE SumaCantidad(_)
SumaCantidad(filas) ==
    IF filas = <<>> THEN 0 ELSE Head(filas).Cantidad + SumaCantidad(Tail(filas))

\* C2 as stated: the severity output depends on the dataset alone: the
\* "unavailable" marker for every filter when df has no Severidad column,
\* and never the marker when it has one.
C2_SeverityByDatasetOnly ==
    atendida # <<>> =>
        IF HasCol(df, "Severidad")
        THEN salida.fig_severidad # Marcador
        ELSE salida.fig_severidad = Marcador

\* C2 as amended: when the callback returns no record (the filter matches
\* none) the severity output is the same "no data for the selected filters"
\* figure as the other charts, with or without a Severidad column; when it
\* returns records
\* the output is the "unavailable" marker when df has no Severidad column
\* and otherwise a breakdown by (category, severity) whose counts add up to
\* the number of matching records, never the marker.
C2_SeverityAmended ==
    atendida # <<>> =>
        IF salida.tabla = <<>>
        THEN salida.fig_severidad = Fig(SinDatos, <<>>)
        ELSE IF HasCol(df, "Severidad")
        THEN /\ salida.fig_severidad.title = "Distribución de Severidad por Categoría"
             /\ salida.fig_severidad.data # <<>>
             /\ SumaCantidad(salida.fig_severidad.data) = Len(salida.tabla)
        ELSE salida.fig_severidad = Marcador

\* A filter that matches no record of a dataset without Severidad column
\* was handled.
C2_Witness ==
    /\ atendida # <<>>
    /\ df.rows # <<>>
    /\ ~HasCol(df, "Severidad")
    /\ Coinciden(Pedida.equipo, Pedida.categoria) = <<>>

\* The example dataset as C3 states it, field by field.
EjemploComo(frecuencias) ==
    /\ df.columns = columnas_necesarias
    /\ Len(df.rows) = 30
    /\ \A i \in 1..30 :
        /\ Cell(df, df.rows[i], "Fecha") = Date(i - 1)
        /\ Cell(df, df.rows[i], "Equipo") =
              Str(IF i <= 10 THEN "Bomba Principal"
                  ELSE IF i <= 20 THEN "Compresor A" ELSE "Motor B")
        /\ Cell(df, df.rows[i], "Causa") =
              Str(<<"Desgaste", "Vibración", "Sobrecalentamiento",
                    "Desalineación", "Fatiga">>[((i - 1) % 5) + 1])
        /\ Cell(df, df.rows[i], "Frecuencia") =
              Num(frecuencias[((i - 1) % Len(frecuencias)) + 1])

\* The file is missing, or neither parser reads it, and the loader returned.
CargaFallida == pc # "inicio" /\ file.estado \in {"ausente", "ilegible"}

\* C3 as stated: after a failed load df is the 30-row example dataset whose
\* frequencies are the cycle 5, 3, 2, 4, 1 repeated.
C3_ExampleFiveCycle == CargaFallida => EjemploComo(<<5, 3, 2, 4, 1>>)

\* C3 as amended: after a failed load df is the 30-row example dataset:
\* equipment in three blocks of ten, the five causes repeating, dates daily
\* from 2024-01-01, and the frequencies the ten values
\* 5, 3, 2, 4, 1, 6, 3, 2, 4, 1 repeated three times; the program goes on to
\* serve it.
C3_ExampleTenCycle ==
    CargaFallida =>
        /\ EjemploComo(<<5, 3, 2, 4, 1, 6, 3, 2, 4, 1>>)
        /\ via \in {"FileNotFoundError", "Exception"}
        /\ pc # "caido"

\* The loader returned for a missing file and the dashboard answered a
\* request on the example dataset.
C3_Witness ==
    /\ file.estado = "ausente"
    /\ atendida # <<>>
    /\ Len(salida.tabla) = 10

\* One of the parsers read the file and the loader has just returned (df,
\* columnas_mapeadas and via are not assigned again).
Leido ==
    /\ pc = "cargado"
    /\ file.estado \in {"valido", "malformado"}
    /\ file.cols # <<>>

\* The positions of the source columns the chain assigns to a field.
ColumnasPara(campo) == {j \in 1..Len(file.cols) : CampoDe(file.cols[j]) = campo}

Minimo(S) == CHOOSE x \in S : \A y \in S : x <= y

Maximo(S) == CHOOSE x \in S : \A y \in S : x >= y

\* Each source column is mapped under at most one field, and that field is
\* the first of the priority order one of whose keywords occurs in the label.
UnCampoPorPrioridad ==
    /\ DOMAIN columnas_mapeadas =
          {campo \in {columnas_necesarias[k] : k \in 1..6} : ColumnasPara(campo) # {}}
    /\ \A a, b \in DOMAIN columnas_mapeadas :
          a # b => columnas_mapeadas[a] # columnas_mapeadas[b]
    /\ \A campo \in DOMAIN columnas_mapeadas :
          \A k \in Ramas(columnas_mapeadas[campo]) :
              \E j \in 1..k : columnas_necesarias[j] = campo
                              /\ j \in Ramas(columnas_mapeadas[campo])

\* C4 as stated: each source column is mapped under at most one field, by
\* priority, and of several columns that match a field the leftmost is the
\* one mapped.
C4_LeftmostWins ==
    Leido =>
        /\ UnCampoPorPrioridad
        /\ \A campo \in DOMAIN columnas_mapeadas :
              columnas_mapeadas[campo] = file.cols[Minimo(ColumnasPara(campo))]

\* C4 as amended: each source column is mapped under at most one field, by
\* priority, and of several columns that match a field the rightmost (the
\* last one the loop meets) is the one mapped; the earlier ones keep their
\* own labels.
C4_RightmostWins ==
    Leido =>
        /\ UnCampoPorPrioridad
        /\ \A campo \in DOMAIN columnas_mapeadas :
              /\ columnas_mapeadas[campo] = file.cols[Maximo(ColumnasPara(campo))]
              /\ via = "procesado" =>
                    \A j \in ColumnasPara(campo) :
                        df.columns[j] = IF j = Maximo(ColumnasPara(campo))
                                        THEN campo ELSE file.cols[j]

\* Two source columns matched the cause keywords and the loader returned.
C4_Witness ==
    /\ Leido
    /\ file.cols = <<" CAUSA raiz ", "Root Cause">>
    /\ via = "procesado"
    /\ "Causa" \in DOMAIN columnas_mapeadas

\* No keyword occurs in any label of the file that was read.
SinPalabras == Leido /\ \A j \in 1..Len(file.cols) : CampoDe(file.cols[j]) = ""

\* C8: when no label matches, a table of any width is loaded with its own
\* rows: its first six columns (or as many as it has) become Fecha, Equipo,
\* Categoria, Causa, Frecuencia, Falla in that order, and the fields without
\* a source column are created by the defaults.
C8_PositionalAnyWidth ==
    SinPalabras =>
        /\ via = "procesado"
        /\ Len(df.rows) = Len(file.filas)
        /\ \A k \in 1..Len(Prefijo(columnas_necesarias, Len(file.cols))) :
              df.columns[k] = columnas_necesarias[k]
        /\ \A k \in 1..6 : HasCol(df, columnas_necesarias[k])

\* The source text of the frequency of row i, "" when the frequency column
\* was created by the defaults.
TextoFrecuencia(i) ==
    IF ColIdx(df, "Frecuencia") <= Len(file.cols)
    THEN file.filas[i][ColIdx(df, "Frecuencia")]
    ELSE ""

\* C9 as stated: every record of df has a numeric frequency that is not
\* negative.
C9_FrequencyNonNegative ==
    pc = "cargado" =>
        \A i \in 1..Len(df.rows) :
            /\ Cell(df, df.rows[i], "Frecuencia").t = "num"
            /\ Cell(df, df.rows[i], "Frecuencia").n >= 0

\* C9 as amended: every record of df has a numeric frequency; a frequency
\* that is absent, empty or not a number is 1, a number is kept as parsed,
\* negative ones included; no such cell drops a row or fails the load.
C9_FrequencyNumeric ==
    /\ pc = "cargado" =>
          \A i \in 1..Len(df.rows) : Cell(df, df.rows[i], "Frecuencia").t = "num"
    /\ (Leido /\ via = "procesado") =>
          /\ Len(df.rows) = Len(file.filas)
          /\ \A i \in 1..Len(df.rows) :
                Cell(df, df.rows[i], "Frecuencia").n =
                    IF TextoFrecuencia(i) \in DOMAIN NumTexto
                    THEN NumTexto[TextoFrecuencia(i)]
                    ELSE 1
    /\ (Leido /\ (\A j \in 1..Len(file.cols) : CampoDe(file.cols[j]) # ""))
          => via = "procesado"

\* A file with a frequency that is not a number and a negative one was
\* loaded.
C9_Witness ==
    /\ Leido
    /\ via = "procesado"
    /\ \E i \in 1..Len(df.rows) :
          TextoFrecuencia(i) = "abc" /\ Cell(df, df.rows[i], "Frecuencia") = Num(1)
    /\ \E i \in 1..Len(df.rows) :
          TextoFrecuencia(i) = "-1" /\ Cell(df, df.rows[i], "Frecuencia").n < 0

\* The returned Pareto rows and table of the last handled callback.
ParetoDevuelto == salida.fig_pareto.data

RECURSIVE SumaTabla(_, _)
SumaTabla(t, causa) ==
    IF t = <<>> THEN 0
    ELSE (IF Head(t)["Causa"] = causa THEN Head(t)["Frecuencia"].n ELSE 0)
         + SumaTabla(Tail(t), causa)

\* C5: when the callback returns records, the Pareto series has exactly one
\* entry per distinct cause of the returned records, each entry's total is
\* the sum of the frequencies of the records with that cause, the totals do
\* not increase along the series, and a request equal to the first one
\* handled gets the same series as the first time.
C5_ParetoSeries ==
    (atendida # <<>> /\ salida.tabla # <<>>) =>
        /\ {ParetoDevuelto[k].Causa : k \in 1..Len(ParetoDevuelto)} =
              {salida.tabla[i]["Causa"] : i \in 1..Len(salida.tabla)}
        /\ \A j, k \in 1..Len(ParetoDevuelto) :
              j # k => ParetoDevuelto[j].Causa # ParetoDevuelto[k].Causa
        /\ \A k \in 1..Len(ParetoDevuelto) :
              ParetoDevuelto[k].Frecuencia =
                  SumaTabla(salida.tabla, ParetoDevuelto[k].Causa)
        /\ \A k \in 1..(Len(ParetoDevuelto) - 1) :
              ParetoDevuelto[k].Frecuencia >= ParetoDevuelto[k + 1].Frecuencia
        /\ primera[1].peticion = Pedida =>
              salida.fig_pareto = primera[1].salida.fig_pareto

\* The first request was handled a second time, after others, and its
\* Pareto series has causes with different totals.
C5_Witness ==
    /\ atendida # <<>>
    /\ primera[1].veces = 2
    /\ primera[1].peticion = Pedida
    /\ \E k \in 1..(Len(ParetoDevuelto) - 1) :
          ParetoDevuelto[k].Frecuencia > ParetoDevuelto[k + 1].Frecuencia

\* C6: the counts of the category distribution a callback returns add up to
\* the number of records it returns, for every dataset the loader produced
\* and every filter; records whose category or failure cell was empty in the
\* file are counted.
C6_CategoryCountsSum ==
    atendida # <<>> => SumaCantidad(salida.fig_torta.data) = Len(salida.tabla)

\* A callback returned a record whose category cell was empty in the file
\* and one whose failure cell was empty.
C6_Witness ==
    /\ atendida # <<>>
    /\ via = "procesado"
    /\ \E i \in 1..Len(salida.tabla) :
          salida.tabla[i]["Categoria"] = Str("Sin datos")
    /\ \E i \in 1..Len(salida.tabla) :
          salida.tabla[i]["Falla"] = Str("Sin datos")

\* The four outputs are those of one run of the callback on the request it
\* received and the whole dataset; the newest request carries the current
\* dropdown values, and once no request is pending the outputs are those of
\* the current values; a request equal to the first one handled gets what
\* the first one got.
Coherente ==
    /\ pendientes # <<>> =>
          pendientes[Len(pendientes)] = Peticion(equipo, categoria)
    /\ atendida # <<>> =>
          /\ LET res == actualizar_dashboard(df, Pedida.equipo,
                                             Pedida.categoria, orden_empates)
             IN  /\ salida.fig_pareto = res.fig_pareto
                 /\ salida.fig_torta = res.fig_torta
                 /\ salida.fig_severidad = res.fig_severidad
                 /\ salida.tabla = res.tabla
          /\ pendientes = <<>> => Pedida = Peticion(equipo, categoria)
          /\ primera[1].peticion = Pedida => salida = primera[1].salida

\* Whenever every request has been answered, the dataset is still the one
\* the loader returned for the file.
DatasetIntacto == pendientes = <<>> => df = cargar_datos(file).df

PrimeraVez(causa) ==
    Minimo({i \in 1..Len(salida.tabla) : salida.tabla[i]["Causa"] = causa})

Empate(k) == ParetoDevuelto[k].Frecuencia = ParetoDevuelto[k + 1].Frecuencia

\* C10 as stated: causes with equal totals appear in the order in which
\* they first occur in the returned records.
C10_TiesFirstSeen ==
    atendida # <<>> =>
        \A k \in 1..(Len(ParetoDevuelto) - 1) :
            Empate(k) => PrimeraVez(ParetoDevuelto[k].Causa)
                             < PrimeraVez(ParetoDevuelto[k + 1].Causa)

\* C10 as amended: the grouping has put the causes in ascending order of
\* their labels before the sort, so when the sort keeps rows with equal
\* totals in their input order, causes with equal totals appear in ascending
\* order of the label, whatever the order of the records.
C10_TiesByLabel ==
    (atendida # <<>> /\ orden_empates = "estable") =>
        \A k \in 1..(Len(ParetoDevuelto) - 1) :
            Empate(k) => CellLess(ParetoDevuelto[k].Causa,
                                  ParetoDevuelto[k + 1].Causa)

\* Two causes tie and the one that occurs first in the records is the later
\* one by label.
C10_Witness ==
    /\ atendida # <<>>
    /\ orden_empates = "estable"
    /\ \E k \in 1..(Len(ParetoDevuelto) - 1) :
          /\ Empate(k)
          /\ PrimeraVez(ParetoDevuelto[k].Causa)
                > PrimeraVez(ParetoDevuelto[k + 1].Causa)

====
